---- MODULE Spec2Model ----
(***************************************************************************)
(* Session-transport registry of src/http-server.ts (setupHttpServer).     *)
(*                                                                         *)
(* The state is the `transports` map, the StreamableHTTPServerTransport    *)
(* objects the POST handler constructs, and the async handlers that are    *)
(* suspended at one of their two awaits (server.connect, handleRequest).   *)
(* One action is one run of synchronous JavaScript between two suspension  *)
(* points of the single-threaded event loop.                               *)
(***************************************************************************)
EXTENDS Integers, FiniteSets, Bags, TLC

\* Bounds of the model.
MaxTransports == 2      \* transports constructed
MaxInFlight == 2        \* handlers suspended at an await at the same time

\* Values of req.headers['mcp-session-id'] (line 30 / 74).
NoHeader == -1          \* falsy: header not sent (undefined), or sent empty ('')
ProtoKey == 0           \* a name every plain object inherits, e.g. 'constructor'
SessionIds == 1..MaxTransports          \* the UUID strings
HeaderValues == {NoHeader, ProtoKey} \cup SessionIds

\* Values of transports[key] (line 33 / 75).
MissingEntry == 0       \* undefined
ObjectMember == -1      \* Object.prototype's member: truthy, not a transport
TransportIds == 1..MaxTransports

Methods == {"POST", "GET", "DELETE"}

\* Response bodies the router writes itself.
NoBody == [kind |-> "none", jsonrpc |-> "", code |-> 0, id |-> ""]
JsonRpcError == [kind |-> "json", jsonrpc |-> "2.0", code |-> -32000, id |-> "null"]
PlainText == [kind |-> "text", jsonrpc |-> "", code |-> 0, id |-> ""]

\* The port setupHttpServer is given (its default), and what /health answers: the
\* fields the router sets from its own state; serverTime, networkAddresses and
\* hostname come from the host.
Port == 3000
HealthBody(status, port) == [kind |-> "health", status |-> status, port |-> port]

VARIABLES
    transports,     \* the registry: own properties of the `transports` object
    tstate,         \* per transport: "none" | "connecting" | "connected" | "failed"
    sessionId,      \* per transport: transport.sessionId, 0 while undefined
    closed,         \* per transport: its onclose has fired
    closedIds,      \* session ids whose transport has signalled closure
    numCreated,     \* transports constructed so far
    inflight,       \* the bag of handlers suspended at an await
    ev              \* the last step's outcome and what was answered to the client

vars == <<transports, tstate, sessionId, closed, closedIds, numCreated, inflight, ev>>

\* A suspended handler: where it waits, its request, its `transport` variable and
\* the branch of the admission decision it took.
Handler(pc, method, isInit, t, path) ==
    [pc |-> pc, method |-> method, isInit |-> isInit, t |-> t, path |-> path]

\* op: the handler or callback that ran; outcome: what it did; status, body: the
\* response the router wrote itself (0, NoBody when it wrote none); sid: the session
\* id a transport's answer carries.
Event(op, outcome, status, body, sid) ==
    [op |-> op, outcome |-> outcome, status |-> status, body |-> body, sid |-> sid]
NoEvent == Event("start", "none", 0, NoBody, 0)

\* `sessionId` in a JavaScript condition: undefined and '' are falsy.
Truthy(header) == header # NoHeader

\* Mutant of Lookup: the map is looked up as if it were made anew for each request.
LookupFreshMap(reg, key) == IF key = ProtoKey THEN ObjectMember ELSE MissingEntry

\* transports[key]: an own property, else what the prototype chain holds.
Lookup(reg, key) ==
    IF key \in SessionIds /\ reg[key] # MissingEntry THEN reg[key]
    ELSE IF key = ProtoKey THEN ObjectMember
    ELSE MissingEntry

\* Mutant of Put: the transport is stored under the next key.
PutShifted(reg, key, t) == [reg EXCEPT ![(key % MaxTransports) + 1] = t]

\* transports[newSessionId] = transport
Put(reg, key, t) == [reg EXCEPT ![key] = t]

\* Mutant of Remove: the whole map is emptied.
RemoveAll(reg, key) == [k \in SessionIds |-> MissingEntry]

\* Mutant of Remove: the delete is left out.
RemoveNothing(reg, key) == reg

\* delete transports[key]
Remove(reg, key) == [reg EXCEPT ![key] = MissingEntry]

\* Mutant of RandomUUID: a generator that returns one fixed id.
RandomUUIDConstant(t) == 1

\* sessionIdGenerator: the value randomUUID() returns when transport t asks for its
\* id. The values are opaque and no value is returned twice; a transport asks once,
\* so the value is named after the transport that asked.
RandomUUID(t) == t

\* Mutant of OnClose: a close handler that deletes a fixed key.
OnCloseEvictsFirst(reg, t) == IF sessionId[t] # 0 THEN Remove(reg, 1) ELSE reg

\* Mutant of OnClose: a close handler that empties the registry when the closing
\* transport has no session id.
OnCloseUnconfirmedWipes(reg, t) ==
    IF sessionId[t] # 0 THEN Remove(reg, sessionId[t]) ELSE [k \in SessionIds |-> MissingEntry]

\* Mutant of OnClose: a close handler that does not touch the registry.
OnCloseNoEvict(reg, t) == reg

\* transport.onclose
OnClose(reg, t) == IF sessionId[t] # 0 THEN Remove(reg, sessionId[t]) ELSE reg

Suspend(h) == inflight (+) SetToBag({h})
Resume(h) == inflight (-) SetToBag({h})
CanSuspend == BagCardinality(inflight) < MaxInFlight

Init ==
    /\ transports = [k \in SessionIds |-> MissingEntry]
    /\ tstate = [t \in TransportIds |-> "none"]
    /\ sessionId = [t \in TransportIds |-> 0]
    /\ closed = [t \in TransportIds |-> FALSE]
    /\ closedIds = {}
    /\ numCreated = 0
    /\ inflight = EmptyBag
    /\ ev = NoEvent


\* Mutant of HandOff: the handler awaits between its lookup and the hand-off, as the
\* create path does.
HandOffAfterAwait(method, isInit, t, path) ==
    /\ CanSuspend
    /\ inflight' = Suspend(Handler("connecting", method, isInit, t, path))
    /\ ev' = Event(method, "forwarded", 0, NoBody, 0)
    /\ UNCHANGED <<transports, tstate, sessionId, closed, closedIds, numCreated>>

\* Mutant of HandOff: the router lets one request at a time through to a transport.
HandOffSerialized(method, isInit, t, path) ==
    /\ CanSuspend
    /\ \A h \in BagToSet(inflight) : h.t # t
    /\ inflight' = Suspend(Handler("handling", method, isInit, t, path))
    /\ ev' = Event(method, "forwarded", 0, NoBody, 0)
    /\ UNCHANGED <<transports, tstate, sessionId, closed, closedIds, numCreated>>

\* `await transport.handleRequest(...)` on a transport: the handler suspends and the
\* transport owns the request/response pair (line 69 / 80).
HandOff(method, isInit, t, path) ==
    /\ CanSuspend
    /\ inflight' = Suspend(Handler("handling", method, isInit, t, path))
    /\ ev' = Event(method, "forwarded", 0, NoBody, 0)
    /\ UNCHANGED <<transports, tstate, sessionId, closed, closedIds, numCreated>>

\* `transport.handleRequest` where `transport` is an inherited member of Object:
\* "transport.handleRequest is not a function" rejects the handler's promise.
ThrowTypeError(method) ==
    /\ ev' = Event(method, "typeError", 0, NoBody, 0)
    /\ UNCHANGED <<transports, tstate, sessionId, closed, closedIds, numCreated, inflight>>

\* The router's own answer (line 57-65 / 76-77).
Reject(method, body) ==
    /\ ev' = Event(method, "rejected", 400, body, 0)
    /\ UNCHANGED <<transports, tstate, sessionId, closed, closedIds, numCreated, inflight>>

\* app.post('/mcp') up to its first await.
PostMcp(header, isInit) ==
    LET found == Lookup(transports, header) IN
    IF Truthy(header) /\ found # MissingEntry
    THEN IF found \in TransportIds
         THEN HandOff("POST", isInit, found, "reuse")
         ELSE ThrowTypeError("POST")
    ELSE IF ~Truthy(header) /\ isInit
    THEN /\ numCreated < MaxTransports
         /\ CanSuspend
         /\ numCreated' = numCreated + 1
         /\ tstate' = [tstate EXCEPT ![numCreated + 1] = "connecting"]
         /\ inflight' = Suspend(Handler("connecting", "POST", isInit, numCreated + 1, "create"))
         /\ ev' = Event("POST", "creating", 0, NoBody, 0)
         /\ UNCHANGED <<transports, sessionId, closed, closedIds>>
    ELSE Reject("POST", JsonRpcError)

\* Mutant of ConnectResolve: the transport is stored once it is connected, before
\* it has confirmed a session id.
ConnectResolveRegisters(h) ==
    /\ h.pc = "connecting"
    /\ tstate' = [tstate EXCEPT ![h.t] = "connected"]
    /\ inflight' = Resume(h) (+) SetToBag({[h EXCEPT !.pc = "handling"]})
    /\ transports' = Put(transports, RandomUUID(h.t), h.t)
    /\ ev' = Event("connect", "connected", 0, NoBody, 0)
    /\ UNCHANGED <<sessionId, closed, closedIds, numCreated>>

\* `await server.connect(transport)` resolves; the handler goes on to line 69.
ConnectResolve(h) ==
    /\ h.pc = "connecting"
    /\ tstate' = [tstate EXCEPT ![h.t] = "connected"]
    /\ inflight' = Resume(h) (+) SetToBag({[h EXCEPT !.pc = "handling"]})
    /\ ev' = Event("connect", "connected", 0, NoBody, 0)
    /\ UNCHANGED <<transports, sessionId, closed, closedIds, numCreated>>

\* Mutant of ConnectReject: the failure is cleaned up by emptying the registry.
ConnectRejectWipes(h) ==
    /\ h.pc = "connecting"
    /\ tstate' = [tstate EXCEPT ![h.t] = "failed"]
    /\ inflight' = Resume(h)
    /\ transports' = [k \in SessionIds |-> MissingEntry]
    /\ ev' = Event("connect", "connectError", 0, NoBody, 0)
    /\ UNCHANGED <<sessionId, closed, closedIds, numCreated>>

\* `await server.connect(transport)` rejects: nothing in the handler catches it.
ConnectReject(h) ==
    /\ h.pc = "connecting"
    /\ tstate' = [tstate EXCEPT ![h.t] = "failed"]
    /\ inflight' = Resume(h)
    /\ ev' = Event("connect", "connectError", 0, NoBody, 0)
    /\ UNCHANGED <<transports, sessionId, closed, closedIds, numCreated>>

\* handleSessionRequest (GET and DELETE) up to its await.
HandleSessionRequest(method, header) ==
    LET found == Lookup(transports, header) IN
    IF ~Truthy(header) \/ found = MissingEntry
    THEN Reject(method, PlainText)
    ELSE IF found \in TransportIds
         THEN HandOff(method, FALSE, found, "lookup")
         ELSE ThrowTypeError(method)

\* Mutant of OnSessionInitialized: the callback does not store the transport.
OnSessionInitializedDropped(reg, newSessionId, t) == reg

\* onsessioninitialized (line 40-43), called by the transport with the id its
\* sessionIdGenerator returned; the transport has set transport.sessionId to it.
OnSessionInitialized(reg, newSessionId, t) == Put(reg, newSessionId, t)

\* The transport works on a request handed to it at line 69 / 80, and the handler's
\* await returns. What the transport does to the router's state:
\*   - an initialization POST on a transport with no session id, if the transport
\*     accepts it: sessionIdGenerator(), then onsessioninitialized(id);
\*   - DELETE: transport.close(), which calls transport.onclose;
\*   - anything else: nothing (the transport answers on its own).
TransportHandle(r, accepted) ==
    LET t == r.t
        newId == RandomUUID(t)
    IN
    /\ r.pc = "handling"
    /\ inflight' = Resume(r)
    /\ IF r.method = "POST" /\ r.isInit /\ sessionId[t] = 0 /\ accepted
       THEN /\ sessionId' = [sessionId EXCEPT ![t] = newId]
            /\ transports' = OnSessionInitialized(transports, newId, t)
            /\ ev' = Event("transport", "initialized", 0, NoBody, newId)
            /\ UNCHANGED <<tstate, closed, closedIds, numCreated>>
       ELSE IF r.method = "DELETE"
       THEN /\ transports' = OnClose(transports, t)
            /\ closed' = [closed EXCEPT ![t] = TRUE]
            /\ closedIds' = closedIds \cup ({sessionId[t]} \ {0})
            /\ ev' = Event("transport", "terminated", 0, NoBody, 0)
            /\ UNCHANGED <<tstate, sessionId, numCreated>>
       ELSE /\ ev' = Event("transport",
                           IF r.method = "POST" /\ r.isInit THEN "refused" ELSE "handled",
                           0, NoBody, 0)
            /\ UNCHANGED <<transports, tstate, sessionId, closed, closedIds, numCreated>>

\* The transport is closed from outside the router (the protocol server closes, the
\* connection goes away): transport.onclose runs (line 47-51). It may run again for
\* a transport that is closed already.
Close(t) ==
    /\ tstate[t] = "connected"
    /\ transports' = OnClose(transports, t)
    /\ closed' = [closed EXCEPT ![t] = TRUE]
    /\ closedIds' = closedIds \cup ({sessionId[t]} \ {0})
    /\ ev' = Event("close", IF closed[t] THEN "reclosed" ELSE "closed", 0, NoBody, 0)
    /\ UNCHANGED <<tstate, sessionId, numCreated, inflight>>

\* Mutant of Health: a health check that reports on the registry.
HealthOfRegistry ==
    /\ ev' = IF \E k \in SessionIds : transports[k] # MissingEntry
             THEN Event("health", "ok", 200, HealthBody("ok", Port), 0)
             ELSE Event("health", "ok", 503, HealthBody("idle", Port), 0)
    /\ UNCHANGED <<transports, tstate, sessionId, closed, closedIds, numCreated, inflight>>

\* app.get('/health'): synchronous, no use of `transports`.
Health ==
    /\ ev' = Event("health", "ok", 200, HealthBody("ok", Port), 0)
    /\ UNCHANGED <<transports, tstate, sessionId, closed, closedIds, numCreated, inflight>>

Next ==
    \/ \E header \in HeaderValues, isInit \in BOOLEAN : PostMcp(header, isInit)
    \/ \E method \in Methods \ {"POST"}, header \in HeaderValues :
            HandleSessionRequest(method, header)
    \/ \E h \in BagToSet(inflight) : ConnectResolve(h)
    \/ \E h \in BagToSet(inflight) : ConnectReject(h)
    \/ \E r \in BagToSet(inflight), accepted \in BOOLEAN : TransportHandle(r, accepted)
    \/ \E t \in TransportIds : Close(t)
    \/ Health

Spec == Init /\ [][Next]_vars

TypeOK ==
    /\ transports \in [SessionIds -> TransportIds \cup {MissingEntry}]
    /\ tstate \in [TransportIds -> {"none", "connecting", "connected", "failed"}]
    /\ sessionId \in [TransportIds -> SessionIds \cup {0}]
    /\ closed \in [TransportIds -> BOOLEAN]
    /\ closedIds \subseteq SessionIds
    /\ numCreated \in 0..MaxTransports
    /\ BagCardinality(inflight) <= MaxInFlight
    /\ \A h \in BagToSet(inflight) :
          h.method \in Methods /\ h.t \in TransportIds /\ h.pc \in {"connecting", "handling"}

----------------------------------------------------------------------------
\* Vocabulary of the properties.

\* The registry holds an entry of its own for this header value.
Live(header) == header \in SessionIds /\ transports[header] # MissingEntry

Entries(reg) == {k \in SessionIds : reg[k] # MissingEntry}

\* The handler a hand-off of this request to this transport leaves in flight.
Delegated(method, isInit, t, path) == Suspend(Handler("handling", method, isInit, t, path))

\* C1: a POST /mcp whose mcp-session-id header matches a live registry entry is
\* handed to exactly that entry's transport, constructs no transport and leaves the
\* registry as it was.
C1_ReuseLiveSession ==
    [][\A header \in SessionIds, isInit \in BOOLEAN :
        (ev'.op = "POST" /\ Live(header) /\ PostMcp(header, isInit)) =>
            /\ inflight' = Delegated("POST", isInit, transports[header], "reuse")
            /\ transports' = transports
            /\ numCreated' = numCreated
            /\ ev'.status = 0]_vars

\* C1 witness: a POST for a live session is in flight at that session's transport.
C1_Witness ==
    /\ ev.outcome = "forwarded"
    /\ \E h \in BagToSet(inflight) :
          h.path = "reuse" /\ sessionId[h.t] # 0 /\ transports[sessionId[h.t]] = h.t

\* C2 as stated: every POST /mcp with no session header and an initialization body
\* ends with exactly one new registry entry and an answer carrying that entry's id.
C2_CreateAlwaysRegisters ==
    [][\A h \in BagToSet(inflight) :
        (h.path = "create" /\ inflight' = Resume(h)) =>
            \E k \in SessionIds :
                /\ ~Live(k)
                /\ transports' = Put(transports, k, h.t)
                /\ ev'.sid = k]_vars

\* C2 amended: such a POST constructs one transport and no registry entry yet; when
\* server.connect resolves and the transport accepts the initialization, exactly one
\* registry entry is added, under the generated id and holding that transport, and
\* the answer carries that id; when server.connect rejects or the transport refuses
\* the message, the registry is left as it was.
C2_CreateRegistersWhenAccepted ==
    /\ [][\A isInit \in BOOLEAN :
            (ev'.op = "POST" /\ isInit /\ PostMcp(NoHeader, isInit)) =>
                /\ numCreated' = numCreated + 1
                /\ transports' = transports
                /\ inflight' = Suspend(Handler("connecting", "POST", TRUE, numCreated + 1, "create"))]_vars
    /\ [][\A h \in BagToSet(inflight) :
            (h.path = "create" /\ inflight' = Resume(h)) =>
                IF h.pc = "handling" /\ ev'.outcome = "initialized"
                THEN \E k \in SessionIds :
                        /\ ~Live(k)
                        /\ transports' = Put(transports, k, h.t)
                        /\ sessionId'[h.t] = k
                        /\ ev'.sid = k
                        /\ Cardinality(Entries(transports')) = Cardinality(Entries(transports)) + 1
                ELSE transports' = transports]_vars
    /\ [][\A h \in BagToSet(inflight) :
            (ev'.op = "transport" /\ h.path = "create" /\ TransportHandle(h, TRUE)) =>
                ev'.outcome = "initialized"]_vars

\* C2 witness: a session has just been created and its id answered.
C2_Witness ==
    /\ ev.outcome = "initialized"
    /\ ev.sid \in SessionIds
    /\ transports[ev.sid] # MissingEntry
    /\ sessionId[transports[ev.sid]] = ev.sid

\* C3 as stated: a POST /mcp with a session header that matches no live entry, or
\* with no header and a body that is no initialization message, is answered 400
\* with the body {jsonrpc "2.0", error code -32000, id null}, leaves the registry as
\* it was and is handed to no transport.
C3_PostRejected ==
    [][\A header \in HeaderValues, isInit \in BOOLEAN :
        (/\ ev'.op = "POST"
         /\ \/ Truthy(header) /\ ~Live(header)
            \/ ~Truthy(header) /\ ~isInit
         /\ PostMcp(header, isInit)) =>
            /\ ev'.status = 400
            /\ ev'.body = JsonRpcError
            /\ transports' = transports
            /\ inflight' = inflight]_vars

\* C4 as stated: a GET or DELETE on /mcp with a missing or unknown session header is
\* answered a plain 400, leaves the registry as it was and is handed to no
\* transport; with a header matching a live entry it is handed to that entry's
\* transport and no transport is constructed.
C4_SessionRequest ==
    [][\A method \in {"GET", "DELETE"}, header \in HeaderValues :
        (ev'.op = method /\ HandleSessionRequest(method, header)) =>
            IF Live(header)
            THEN /\ inflight' = Delegated(method, FALSE, transports[header], "lookup")
                 /\ transports' = transports
                 /\ numCreated' = numCreated
            ELSE /\ ev'.status = 400
                 /\ ev'.body = PlainText
                 /\ transports' = transports
                 /\ inflight' = inflight]_vars

\* C5: once a transport has signalled closure, every lookup of its session id finds
\* nothing (the id is not inserted again); a further close notification for that id
\* raises nothing and leaves the registry as it was; an entry is evicted once.
C5_EvictedOnce ==
    /\ [](\A k \in closedIds : Lookup(transports, k) = MissingEntry)
    /\ [][\A t \in TransportIds :
            (ev'.op = "close" /\ sessionId[t] \in closedIds /\ Close(t)) =>
                /\ transports' = transports
                /\ ev'.outcome = "reclosed"]_vars
    /\ [][\A r \in BagToSet(inflight) :
            (/\ ev'.op = "transport"
             /\ sessionId[r.t] \in closedIds
             /\ r.method = "DELETE"
             /\ TransportHandle(r, TRUE)) =>
                transports' = transports]_vars
    /\ [][\A k \in SessionIds :
            (Live(k) /\ transports'[k] = MissingEntry) =>
                k \notin closedIds /\ k \in closedIds']_vars

\* C5 witness: a close notification has come a second time for an evicted session.
C5_Witness ==
    /\ ev.outcome = "reclosed"
    /\ \E t \in TransportIds :
          closed[t] /\ sessionId[t] \in closedIds /\ transports[sessionId[t]] = MissingEntry

\* A session that can be looked up: its transport is registered under its id.
IsLive(t) == sessionId[t] # 0 /\ transports[sessionId[t]] = t

\* C6: no two live sessions have the same session id, and an insertion by
\* onsessioninitialized never replaces an entry the registry already holds.
C6_UniqueSessionIds ==
    /\ [](\A t1, t2 \in TransportIds :
            (t1 # t2 /\ sessionId[t1] # 0 /\ sessionId[t2] # 0 /\ ~closed[t1] /\ ~closed[t2]) =>
                sessionId[t1] # sessionId[t2])
    /\ [](\A t \in TransportIds : (sessionId[t] # 0 /\ sessionId[t] \notin closedIds) => IsLive(t))
    /\ [][\A k \in SessionIds :
            (transports'[k] # MissingEntry /\ transports'[k] # transports[k]) =>
                transports[k] = MissingEntry]_vars

\* C6 witness: two sessions are live at once, the second just registered.
C6_Witness ==
    /\ ev.outcome = "initialized"
    /\ \E t1, t2 \in TransportIds : t1 # t2 /\ IsLive(t1) /\ IsLive(t2)

\* C7: after initialization, a follow-up POST with the session's id is handed to the
\* session's transport and constructs nothing; a DELETE with that id is handed to
\* the transport, whose handling of it evicts the session's registry entry; a GET
\* with that id after that is answered 400 and handed to no transport.
C7_SessionScenario ==
    /\ [][\A s \in SessionIds, isInit \in BOOLEAN :
            (ev'.op = "POST" /\ Live(s) /\ PostMcp(s, isInit)) =>
                /\ inflight' = Delegated("POST", isInit, transports[s], "reuse")
                /\ numCreated' = numCreated
                /\ Entries(transports') = Entries(transports)]_vars
    /\ [][\A s \in SessionIds :
            (ev'.op = "DELETE" /\ Live(s) /\ HandleSessionRequest("DELETE", s)) =>
                inflight' = Delegated("DELETE", FALSE, transports[s], "lookup")]_vars
    /\ [][\A r \in BagToSet(inflight), accepted \in BOOLEAN :
            (ev'.op = "transport" /\ r.method = "DELETE" /\ TransportHandle(r, accepted)) =>
                /\ sessionId[r.t] # 0
                /\ Lookup(transports', sessionId[r.t]) = MissingEntry
                /\ sessionId[r.t] \in closedIds']_vars
    /\ [][\A s \in closedIds :
            (ev'.op = "GET" /\ HandleSessionRequest("GET", s)) =>
                /\ ev'.status = 400
                /\ inflight' = inflight]_vars

\* C7 witness: a DELETE has just terminated an initialized session.
C7_Witness ==
    /\ ev.outcome = "terminated"
    /\ \E t \in TransportIds :
          sessionId[t] \in closedIds /\ transports[sessionId[t]] = MissingEntry

\* C8: a rejected server.connect leaves no registry entry for its transport, then or
\* later, leaves every registry entry as it was, and requests for the other sessions
\* are admitted afterwards as before.
C8_ConnectFailureIsLocal ==
    /\ [](\A t \in TransportIds :
            tstate[t] = "failed" => sessionId[t] = 0 /\ \A k \in SessionIds : transports[k] # t)
    /\ [][\A h \in BagToSet(inflight) :
            (h.pc = "connecting" /\ inflight' = Resume(h)) =>
                /\ transports' = transports
                /\ sessionId' = sessionId
                /\ tstate' = [tstate EXCEPT ![h.t] = "failed"]]_vars
    /\ [][\A s \in SessionIds, isInit \in BOOLEAN :
            (/\ ev'.op = "POST"
             /\ \E t \in TransportIds : tstate[t] = "failed"
             /\ Live(s)
             /\ PostMcp(s, isInit)) =>
                inflight' = Delegated("POST", isInit, transports[s], "reuse")]_vars

\* C8 witness: a connect has failed, another session is live and a request for it
\* has been admitted.
C8_Witness ==
    /\ \E t \in TransportIds : tstate[t] = "failed"
    /\ \E h \in BagToSet(inflight) : h.path = "reuse" /\ IsLive(h.t)
    /\ ev.outcome = "forwarded"

\* C9 as stated: no handler ends by throwing; every admission or lookup failure,
\* a failed server.connect included, becomes a response.
C9_NoUncaughtFault == ev.outcome \notin {"connectError", "typeError"}

\* A handler is in flight at this transport.
Busy(t) == \E h \in BagToSet(inflight) : h.t = t /\ h.pc = "handling"

\* C10: while a request for a live session is in flight at its transport, a further
\* request for that session is neither blocked nor rejected: it is handed to the
\* same transport, next to the first, and the registry is left as it was.
C10_SameSessionConcurrent ==
    /\ [](\A s \in SessionIds :
            (Live(s) /\ Busy(transports[s]) /\ CanSuspend) =>
                /\ ENABLED PostMcp(s, FALSE)
                /\ ENABLED HandleSessionRequest("GET", s))
    /\ [][\A s \in SessionIds, isInit \in BOOLEAN :
            (ev'.op = "POST" /\ Live(s) /\ Busy(transports[s]) /\ PostMcp(s, isInit)) =>
                /\ inflight' = Delegated("POST", isInit, transports[s], "reuse")
                /\ transports' = transports]_vars
    /\ [][\A s \in SessionIds, method \in {"GET", "DELETE"} :
            (ev'.op = method /\ Live(s) /\ Busy(transports[s]) /\ HandleSessionRequest(method, s)) =>
                /\ inflight' = Delegated(method, FALSE, transports[s], "lookup")
                /\ transports' = transports]_vars

\* C10 witness: two requests are in flight at one live session's transport.
C10_Witness ==
    /\ ev.outcome = "forwarded"
    /\ \E t \in TransportIds :
          /\ IsLive(t)
          /\ BagCardinality([h \in {g \in BagToSet(inflight) : g.t = t /\ g.pc = "handling"}
                                |-> inflight[h]]) >= 2

\* C11: GET /health can be served in every reachable state and answers 200 with
\* status 'ok' and the configured port, whatever the sessions' states; it leaves the
\* registry, the transports and the handlers in flight as they were.
C11_HealthAlwaysOk ==
    /\ [](ENABLED Health)
    /\ [][ev'.op = "health" =>
            /\ ev'.status = 200
            /\ ev'.body = HealthBody("ok", Port)
            /\ UNCHANGED <<transports, tstate, sessionId, closed, closedIds, numCreated, inflight>>]_vars

\* C11 witness: /health has answered while one session is live, another is closed
\* and evicted.
C11_Witness ==
    /\ ev.op = "health"
    /\ ev.status = 200
    /\ \E t \in TransportIds : IsLive(t)
    /\ \E t \in TransportIds : closed[t] /\ sessionId[t] \in closedIds

\* A constructed transport that has confirmed no session id.
Pending(t) == tstate[t] # "none" /\ sessionId[t] = 0

\* C12: a transport gets its registry entry only in the step in which its
\* onsessioninitialized fires with the confirmed id, under that id; while it is
\* pending no lookup finds it; a creation that never confirms an id (connect failed,
\* initialization refused) leaves no registry entry.
C12_TwoPhaseCreation ==
    /\ [](\A t \in TransportIds :
            Pending(t) => \A header \in HeaderValues : Lookup(transports, header) # t)
    /\ [][\A k \in SessionIds :
            (transports'[k] # MissingEntry /\ transports'[k] # transports[k]) =>
                /\ ev'.outcome = "initialized"
                /\ ev'.sid = k
                /\ Pending(transports'[k])
                /\ sessionId'[transports'[k]] = k]_vars
    /\ [][\A t \in TransportIds :
            (Pending(t) /\ sessionId'[t] # 0) => transports'[sessionId'[t]] = t]_vars

\* C12 witness: a transport is connected, its initialization was refused, no
\* handler holds it any more and the registry has no entry for it.
C12_Witness ==
    /\ ev.outcome = "refused"
    /\ \E t \in TransportIds :
          /\ tstate[t] = "connected"
          /\ Pending(t)
          /\ \A h \in BagToSet(inflight) : h.t # t
          /\ \A k \in SessionIds : transports[k] # t

\* The keys under which the registry holds this transport.
KeysOf(t) == {k \in SessionIds : transports[k] = t}

\* C13 as stated: every transport that is constructed and not yet closed is held
\* under exactly one session id of the registry.
C13_EveryLiveTransportOwned ==
    \A t \in TransportIds :
        (tstate[t] # "none" /\ ~closed[t]) => Cardinality(KeysOf(t)) = 1

\* C13 amended: every transport that has confirmed a session id and is not yet
\* closed is held under exactly one key of the registry, its own session id; no
\* transport is held under two keys; a transport that has confirmed no session id
\* is held under none.
C13_ConfirmedTransportOwned ==
    \A t \in TransportIds :
        /\ Cardinality(KeysOf(t)) <= 1
        /\ (sessionId[t] # 0 /\ ~closed[t]) => KeysOf(t) = {sessionId[t]}
        /\ Pending(t) => KeysOf(t) = {}

\* C13 witness: one transport is registered under its id while another, connected
\* and not closed, is still pending and under no key.
C13_Witness ==
    \E t1, t2 \in TransportIds :
        /\ sessionId[t1] # 0 /\ ~closed[t1] /\ KeysOf(t1) = {sessionId[t1]}
        /\ tstate[t2] = "connected" /\ Pending(t2) /\ ~closed[t2] /\ KeysOf(t2) = {}

\* C14: a registry entry stays as it is until its own transport signals closure: a
\* step that removes or replaces the entry of a session is the close notification
\* of that session's transport (from outside, or by the transport's handling of a
\* DELETE) and removes it; no admission, rejection, /health request, connect or
\* close of another transport touches it.
C14_RemovedOnlyByOwnClose ==
    [][\A k \in SessionIds :
        (Live(k) /\ transports'[k] # transports[k]) =>
            /\ transports'[k] = MissingEntry
            /\ sessionId[transports[k]] = k
            /\ closed'[transports[k]]
            /\ k \in closedIds'
            /\ \/ ev'.op = "close" /\ Close(transports[k])
               \/ /\ ev'.op = "transport"
                  /\ \E r \in BagToSet(inflight) :
                        r.t = transports[k] /\ r.method = "DELETE" /\ TransportHandle(r, TRUE)]_vars

\* C14 witness: one session has been closed and evicted and the other one's entry
\* is still there.
C14_Witness ==
    /\ ev.op = "close"
    /\ ev.outcome = "closed"
    /\ \E t1, t2 \in TransportIds :
          /\ t1 # t2
          /\ sessionId[t1] \in closedIds /\ KeysOf(t1) = {}
          /\ IsLive(t2)

\* C15 as stated: each POST /mcp has exactly one of three outcomes, decided in this
\* order: reuse (handed to the entry's transport) when the header matches a live
\* entry, whatever the body; create (a transport is constructed) when there is no
\* header and the body is an initialization message; reject (400 with the JSON-RPC
\* error, nothing constructed, nothing handed over) in every other case, an
\* initialization body with a non-matching header included.
C15_AdmissionDecision ==
    [][\A header \in HeaderValues, isInit \in BOOLEAN :
        (ev'.op = "POST" /\ PostMcp(header, isInit)) =>
            IF Live(header)
            THEN /\ inflight' = Delegated("POST", isInit, transports[header], "reuse")
                 /\ numCreated' = numCreated
                 /\ ev'.status = 0
            ELSE IF header = NoHeader /\ isInit
            THEN /\ numCreated' = numCreated + 1
                 /\ inflight' = Suspend(Handler("connecting", "POST", TRUE, numCreated + 1, "create"))
                 /\ ev'.status = 0
            ELSE /\ ev'.outcome = "rejected"
                 /\ ev'.status = 400
                 /\ ev'.body = JsonRpcError
                 /\ numCreated' = numCreated
                 /\ inflight' = inflight]_vars

\* C16 as stated: every request on /mcp has exactly one responder. On the reject
\* paths the router writes the 400 and hands the request to no transport; on the
\* reuse and create paths the router writes nothing and hands the request to the
\* resolved transport, once (on the create path when server.connect is over).
C16_ExactlyOneResponder ==
    /\ [][ev'.op \in Methods =>
            \/ /\ ev'.status = 400
               /\ inflight' = inflight
            \/ /\ ev'.status = 0
               /\ \E h \in BagToSet(inflight') :
                     /\ inflight' = Suspend(h)
                     /\ h.method = ev'.op
                     /\ h.pc = "handling" <=> h.path # "create"]_vars
    /\ [][ev'.op = "connect" =>
            \E h \in BagToSet(inflight) :
                /\ h.pc = "connecting"
                /\ ev'.status = 0
                /\ inflight' = Resume(h) (+) SetToBag({[h EXCEPT !.pc = "handling"]})]_vars

\* C17: every registry entry is keyed by the session id of the transport it holds,
\* and a close notification of a transport changes no entry but that transport's
\* own.
C17_KeyedByOwnSessionId ==
    /\ [](\A k \in SessionIds :
            transports[k] # MissingEntry => sessionId[transports[k]] = k)
    /\ [][\A t \in TransportIds :
            (ev'.op = "close" /\ Close(t)) =>
                \A k \in SessionIds : transports'[k] # transports[k] => transports[k] = t]_vars
    /\ [][\A r \in BagToSet(inflight) :
            (ev'.op = "transport" /\ r.method = "DELETE" /\ TransportHandle(r, TRUE)) =>
                \A k \in SessionIds : transports'[k] # transports[k] => transports[k] = r.t]_vars

\* C17 witness: a DELETE has closed one session's transport, whose entry is gone,
\* and the other session's entry is still under its own id.
C17_Witness ==
    /\ ev.outcome = "terminated"
    /\ \E t1, t2 \in TransportIds :
          /\ t1 # t2
          /\ closed[t1] /\ sessionId[t1] # 0 /\ transports[sessionId[t1]] = MissingEntry
          /\ sessionId[t2] # 0 /\ transports[sessionId[t2]] = t2

\* C18: on the reuse, GET and DELETE paths a request reaches a transport in the very
\* step of the router that looked the transport up, and the transport's registry
\* entry is present in that step; a handler waits before its hand-off on the create
\* path only (await server.connect).
C18_LookupThenHandOffAtomic ==
    /\ [][\A h \in BagToSet(inflight') :
            (/\ h.pc = "handling"
             /\ h.path # "create"
             /\ CopiesIn(h, inflight') > CopiesIn(h, inflight)) =>
                /\ ev'.op = h.method
                /\ ev'.outcome = "forwarded"
                /\ IsLive(h.t)
                /\ transports' = transports]_vars
    /\ [](\A h \in BagToSet(inflight) : h.pc = "connecting" => h.path = "create")

\* C18 witness: a GET has just been handed to a live session's transport after
\* another session's transport was closed and its entry removed.
C18_Witness ==
    /\ ev.op = "GET"
    /\ ev.outcome = "forwarded"
    /\ \E h \in BagToSet(inflight), t2 \in TransportIds :
          /\ h.path = "lookup" /\ h.method = "GET" /\ IsLive(h.t)
          /\ t2 # h.t /\ closed[t2] /\ sessionId[t2] \in closedIds

\* C19: a close notification of a transport that has no session id yet leaves the
\* registry and the set of evicted ids as they were.
C19_UnconfirmedCloseIsNoOp ==
    [][\A t \in TransportIds :
        (ev'.op = "close" /\ Pending(t) /\ Close(t)) =>
            /\ transports' = transports
            /\ closedIds' = closedIds
            /\ sessionId' = sessionId]_vars

\* C19 witness: a transport that never confirmed a session id has just been closed
\* while another session's entry is in the registry.
C19_Witness ==
    /\ ev.op = "close"
    /\ ev.outcome = "closed"
    /\ \E t1, t2 \in TransportIds :
          /\ closed[t1] /\ Pending(t1) /\ KeysOf(t1) = {}
          /\ ~closed[t2] /\ IsLive(t2)
====
